---- MODULE Spec2Model ----
(***************************************************************************)
(* Model of the android-bootimage crate: the header codec                  *)
(* (header/samsung_header.rs), the section catalog and layout calculator   *)
(* (header.rs) and the boot image model (image/samsung.rs, image.rs).      *)
(*                                                                         *)
(* Bytes are naturals in 0..255, byte arrays and Vec<u8> are sequences,    *)
(* a header is a record with the fields of the Rust struct.                *)
(***************************************************************************)
EXTENDS Integers, Sequences, FiniteSets, TLC

VARIABLES
    boot_image,   \* the BootImage value the caller owns (Spec)
    call,         \* the last call made on boot_image: op, arg, ret, pre (Spec)
    codec,        \* a header codec run: buffer, parsed header, destination
    layout,       \* a layout calculator run: header, target, result
    io            \* a write_to / read_from run

vars == <<boot_image, call, codec, layout, io>>

(***************************************************************************)
(* Bounds of the model (not program constants).                            *)
(***************************************************************************)
MaxBufLen == 2
MaxSectionSize == 3
MaxPageSize == 2
MaxRampStep == 3

(***************************************************************************)
(* Format constants.                                                       *)
(***************************************************************************)
SAMSUNG_HEADER_SIZE == 616
SAMSUNG_MAGIC_SIZE == 8
PRODUCT_NAME_SIZE == 24
BOOT_ARGUMENTS_SIZE == 512
UNIQUE_ID_SIZE == 32
HEADER_SIZE == 616

SAMSUNG_MAGIC == <<65, 78, 68, 82, 79, 73, 68, 33>>
SAMSUNG_MAGIC_STR == <<65, 78, 68, 82, 79, 73, 68, 33>>
MAGIC_STR == <<65, 78, 68, 82, 79, 73, 68, 33>>

Zeros(n) == [i \in 1..n |-> 0]

\* `x as u32` for a usize x: the low 32 bits, computed in two 16-bit halves.
as_u32(x) == (x % 65536) + 65536 * ((x \div 65536) % 65536)

(***************************************************************************)
(* Header: Default.                                                        *)
(***************************************************************************)
\* Variant: the default a derived Default would give, every field zero.
DefaultHeader_derived ==
    [ magic                |-> Zeros(SAMSUNG_MAGIC_SIZE),
      kernel_size          |-> 0,
      kernel_load_address  |-> 0,
      ramdisk_size         |-> 0,
      ramdisk_load_address |-> 0,
      second_size          |-> 0,
      second_load_address  |-> 0,
      device_tree_size     |-> 0,
      reserved             |-> 0,
      kernel_tags_address  |-> 0,
      page_size            |-> 0,
      product_name         |-> Zeros(PRODUCT_NAME_SIZE),
      boot_arguments       |-> [r \in 1..16 |-> Zeros(32)],
      unique_id            |-> Zeros(UNIQUE_ID_SIZE) ]

DefaultHeader ==
    [ magic                |-> SAMSUNG_MAGIC,
      kernel_size          |-> 0,
      kernel_load_address  |-> 268468224,
      ramdisk_size         |-> 0,
      ramdisk_load_address |-> 285212672,
      second_size          |-> 0,
      second_load_address  |-> 269418496,
      device_tree_size     |-> 0,
      reserved             |-> 33554432,
      kernel_tags_address  |-> 268435712,
      page_size            |-> 2048,
      product_name         |-> Zeros(PRODUCT_NAME_SIZE),
      boot_arguments       |-> [r \in 1..16 |-> Zeros(32)],
      unique_id            |-> Zeros(UNIQUE_ID_SIZE) ]

\* SamsungHeader::has_correct_magic
has_correct_magic(h) == h.magic = SAMSUNG_MAGIC_STR

\* Header::correct_magic
correct_magic(h) == h.magic = MAGIC_STR

(***************************************************************************)
(* Header codec (header/samsung_header.rs).                                *)
(***************************************************************************)
Drop(s, n) == SubSeq(s, n + 1, Len(s))

\* <&[u8] as Read>::read_exact on a slice that holds at least n bytes: the
\* bytes read and the slice advanced past them.
slice_read_exact(src, n) == [buffer |-> SubSeq(src, 1, n), src |-> Drop(src, n)]

\* byteorder's LittleEndian::read_u32(buf): the value of buf[..4]; buf is
\* borrowed, the caller's slice is not advanced.
LittleEndian_read_u32(buf) ==
    buf[1] + 256 * buf[2] + 65536 * buf[3] + 16777216 * buf[4]

\* transmute::<[u8; 512], [[u8; 32]; 16]>: the same bytes as 16 rows of 32.
transmute_rows(buffer) ==
    [r \in 1..16 |-> SubSeq(buffer, (BOOT_ARGUMENTS_SIZE \div 16) * (r - 1) + 1,
                                    (BOOT_ARGUMENTS_SIZE \div 16) * r)]

\* SamsungHeader::parse.  The field initialisers run in the order written;
\* `src` is advanced by the four read_exact calls only.
parse(source) ==
    LET m    == slice_read_exact(source, SAMSUNG_MAGIC_SIZE)
        src1 == m.src
        pn   == slice_read_exact(src1, PRODUCT_NAME_SIZE)
        ba   == slice_read_exact(pn.src, BOOT_ARGUMENTS_SIZE)
        id   == slice_read_exact(ba.src, UNIQUE_ID_SIZE)
    IN  [ magic                |-> m.buffer,
          kernel_size          |-> LittleEndian_read_u32(src1),
          kernel_load_address  |-> LittleEndian_read_u32(src1),
          ramdisk_size         |-> LittleEndian_read_u32(src1),
          ramdisk_load_address |-> LittleEndian_read_u32(src1),
          second_size          |-> LittleEndian_read_u32(src1),
          second_load_address  |-> LittleEndian_read_u32(src1),
          device_tree_size     |-> LittleEndian_read_u32(src1),
          reserved             |-> LittleEndian_read_u32(src1),
          kernel_tags_address  |-> LittleEndian_read_u32(src1),
          page_size            |-> LittleEndian_read_u32(src1),
          product_name         |-> pn.buffer,
          boot_arguments       |-> transmute_rows(ba.buffer),
          unique_id            |-> id.buffer ]

\* A destination W: Write + Hasher.  `out` is what its Write side received,
\* `hashed` what its Hasher side received and kept to itself.  Both traits
\* are implemented by the caller's type: `forwards` tells whether its
\* Hasher::write passes the bytes on to its own Write side, `big_endian` the
\* target's byte order, `capacity` how many bytes the Write side accepts.
NewDestination(forwards, big_endian, capacity) ==
    [ forwards |-> forwards, big_endian |-> big_endian, capacity |-> capacity,
      out |-> <<>>, hashed |-> <<>> ]

\* Write::write_all: all of the bytes, or as many as fit and an error.
write_all(dst, bytes) ==
    LET room == dst.capacity - Len(dst.out) IN
    IF Len(bytes) <= room
    THEN [ok |-> TRUE, dst |-> [dst EXCEPT !.out = @ \o bytes]]
    ELSE [ok |-> FALSE, dst |-> [dst EXCEPT !.out = @ \o SubSeq(bytes, 1, room)]]

\* u32::to_ne_bytes
to_ne_bytes(v, big_endian) ==
    LET le == <<v % 256, (v \div 256) % 256, (v \div 65536) % 256, (v \div 16777216) % 256>>
    IN  IF big_endian THEN <<le[4], le[3], le[2], le[1]>> ELSE le

\* Hasher::write_u32, the method `dst.write_u32(..)` resolves to: it feeds
\* the native-endian bytes to Hasher::write and returns nothing.
Hasher_write_u32(dst, v) ==
    LET bytes == to_ne_bytes(v, dst.big_endian) IN
    IF dst.forwards
    THEN write_all(dst, bytes).dst
    ELSE [dst EXCEPT !.hashed = @ \o bytes]

\* The calls of SamsungHeader::write_to in order.
write_to_calls(h) ==
    <<[call |-> "write_all", bytes |-> h.magic],
      [call |-> "write_u32", value |-> h.kernel_size],
      [call |-> "write_u32", value |-> h.kernel_load_address],
      [call |-> "write_u32", value |-> h.ramdisk_size],
      [call |-> "write_u32", value |-> h.ramdisk_load_address],
      [call |-> "write_u32", value |-> h.second_size],
      [call |-> "write_u32", value |-> h.second_load_address],
      [call |-> "write_u32", value |-> h.device_tree_size],
      [call |-> "write_u32", value |-> h.reserved],
      [call |-> "write_u32", value |-> h.kernel_tags_address],
      [call |-> "write_u32", value |-> h.page_size],
      [call |-> "write_all", bytes |-> h.product_name]>>
    \o [r \in 1..16 |-> [call |-> "write_all", bytes |-> h.boot_arguments[r]]]
    \o <<[call |-> "write_all", bytes |-> h.unique_id]>>

\* Runs the calls in order; a failed write_all returns at once (`?`).
RECURSIVE run_calls(_, _)
run_calls(dst, calls) ==
    IF calls = <<>> THEN [ok |-> TRUE, dst |-> dst]
    ELSE LET c == Head(calls) IN
         IF c.call = "write_u32"
         THEN run_calls(Hasher_write_u32(dst, c.value), Tail(calls))
         ELSE LET w == write_all(dst, c.bytes) IN
              IF w.ok THEN run_calls(w.dst, Tail(calls))
              ELSE [ok |-> FALSE, dst |-> w.dst]

\* SamsungHeader::write_to: the destination afterwards and the value returned.
write_to(h, dst) ==
    LET done == run_calls(dst, write_to_calls(h)) IN
    IF done.ok
    THEN [dst |-> done.dst, ret |-> [ok |-> TRUE, value |-> SAMSUNG_HEADER_SIZE]]
    ELSE [dst |-> done.dst, ret |-> [ok |-> FALSE, err |-> "Io"]]

(***************************************************************************)
(* Boot image model.                                                       *)
(***************************************************************************)
DefaultBootImage ==
    [ header         |-> DefaultHeader,
      kernel         |-> <<>>,
      ramdisk        |-> <<>>,
      second_ramdisk |-> <<>>,
      device_tree    |-> <<>> ]

\* Variant: the sizes of the header swapped in are kept as offered.
update_all_sizes_stale(img) == img

update_all_sizes(img) ==
    [img EXCEPT !.header =
        [img.header EXCEPT
            !.kernel_size      = as_u32(Len(img.kernel)),
            !.ramdisk_size     = as_u32(Len(img.ramdisk)),
            !.second_size      = as_u32(Len(img.second_ramdisk)),
            !.device_tree_size = as_u32(Len(img.device_tree))]]

\* Variant: the swap happens before the magic is validated.
insert_header_swap_first(img, new_header) ==
    IF ~has_correct_magic(new_header)
    THEN [image |-> update_all_sizes([img EXCEPT !.header = new_header]),
          ret   |-> [ok |-> FALSE, err |-> "BadMagic", header |-> new_header]]
    ELSE IF new_header.page_size = 0
    THEN [image |-> img,
          ret   |-> [ok |-> FALSE, err |-> "NoPageSize", header |-> new_header]]
    ELSE [image |-> update_all_sizes([img EXCEPT !.header = new_header]),
          ret   |-> [ok |-> TRUE, value |-> img.header]]

\* Variant: the header handed back is the one after update_all_sizes.
insert_header_returns_current(img, new_header) ==
    IF ~has_correct_magic(new_header)
    THEN [image |-> img,
          ret   |-> [ok |-> FALSE, err |-> "BadMagic", header |-> new_header]]
    ELSE IF new_header.page_size = 0
    THEN [image |-> img,
          ret   |-> [ok |-> FALSE, err |-> "NoPageSize", header |-> new_header]]
    ELSE [image |-> update_all_sizes([img EXCEPT !.header = new_header]),
          ret   |-> [ok |-> TRUE,
                     value |-> update_all_sizes([img EXCEPT !.header = new_header]).header]]

\* Variant: a zero page size is replaced by the default page size.
insert_header_default_page_size(img, new_header) ==
    IF ~has_correct_magic(new_header)
    THEN [image |-> img,
          ret   |-> [ok |-> FALSE, err |-> "BadMagic", header |-> new_header]]
    ELSE LET fixed == IF new_header.page_size = 0
                      THEN [new_header EXCEPT !.page_size = 2048]
                      ELSE new_header
         IN [image |-> update_all_sizes([img EXCEPT !.header = fixed]),
             ret   |-> [ok |-> TRUE, value |-> img.header]]

\* Variant: the page size is examined before the magic.
insert_header_page_size_first(img, new_header) ==
    IF new_header.page_size = 0
    THEN [image |-> img,
          ret   |-> [ok |-> FALSE, err |-> "NoPageSize", header |-> new_header]]
    ELSE IF ~has_correct_magic(new_header)
    THEN [image |-> img,
          ret   |-> [ok |-> FALSE, err |-> "BadMagic", header |-> new_header]]
    ELSE [image |-> update_all_sizes([img EXCEPT !.header = new_header]),
          ret   |-> [ok |-> TRUE, value |-> img.header]]

\* Variant: the page size of the offered header is not examined.
insert_header_any_page_size(img, new_header) ==
    IF ~has_correct_magic(new_header)
    THEN [image |-> img,
          ret   |-> [ok |-> FALSE, err |-> "BadMagic", header |-> new_header]]
    ELSE [image |-> update_all_sizes([img EXCEPT !.header = new_header]),
          ret   |-> [ok |-> TRUE, value |-> img.header]]

\* The result pairs the image after the call with the value returned.
insert_header(img, new_header) ==
    IF ~has_correct_magic(new_header)
    THEN [image |-> img,
          ret   |-> [ok |-> FALSE, err |-> "BadMagic", header |-> new_header]]
    ELSE IF new_header.page_size = 0
    THEN [image |-> img,
          ret   |-> [ok |-> FALSE, err |-> "NoPageSize", header |-> new_header]]
    ELSE [image |-> update_all_sizes([img EXCEPT !.header = new_header]),
          ret   |-> [ok |-> TRUE, value |-> img.header]]

insert_kernel(img, new_kernel) ==
    [image |-> [img EXCEPT !.header.kernel_size = as_u32(Len(new_kernel)),
                           !.kernel = new_kernel],
     ret   |-> img.kernel]

insert_ramdisk(img, new_ramdisk) ==
    [image |-> [img EXCEPT !.header.ramdisk_size = as_u32(Len(new_ramdisk)),
                           !.ramdisk = new_ramdisk],
     ret   |-> img.ramdisk]

\* Variant: the second ramdisk's insert records the length in ramdisk_size.
insert_second_ramdisk_wrong_field(img, new_second_ramdisk) ==
    [image |-> [img EXCEPT !.header.ramdisk_size = as_u32(Len(new_second_ramdisk)),
                           !.second_ramdisk = new_second_ramdisk],
     ret   |-> img.second_ramdisk]

insert_second_ramdisk(img, new_second_ramdisk) ==
    [image |-> [img EXCEPT !.header.second_size = as_u32(Len(new_second_ramdisk)),
                           !.second_ramdisk = new_second_ramdisk],
     ret   |-> img.second_ramdisk]

insert_device_tree(img, new_device_tree) ==
    [image |-> [img EXCEPT !.header.device_tree_size = as_u32(Len(new_device_tree)),
                           !.device_tree = new_device_tree],
     ret   |-> img.device_tree]

page_size(img) == img.header.page_size

\* std::mem::size_of::<Header>(): 8 + 10 * 4 + 24 + 512 + 32 bytes, alignment 4.
size_of_Header == 616

\* Variant: the page count rounds down.
size_to_size_in_pages_floor(size, psize) == size \div psize

size_to_size_in_pages(size, psize) == (size + psize - 1) \div psize

header_size_in_pages(img) == size_to_size_in_pages(size_of_Header, page_size(img))
kernel_size_in_pages(img) == size_to_size_in_pages(Len(img.kernel), page_size(img))
ramdisk_size_in_pages(img) == size_to_size_in_pages(Len(img.ramdisk), page_size(img))
second_ramdisk_size_in_pages(img) ==
    size_to_size_in_pages(Len(img.second_ramdisk), page_size(img))
device_tree_size_in_pages(img) ==
    size_to_size_in_pages(Len(img.device_tree), page_size(img))

header_offset_in_pages(img) == 0
kernel_offset_in_pages(img) == header_offset_in_pages(img) + header_size_in_pages(img)
ramdisk_offset_in_pages(img) == kernel_offset_in_pages(img) + kernel_size_in_pages(img)
\* Variant: the pages of the ramdisk are not counted.
second_ramdisk_offset_in_pages_no_ramdisk(img) == ramdisk_offset_in_pages(img)

second_ramdisk_offset_in_pages(img) ==
    ramdisk_offset_in_pages(img) + ramdisk_size_in_pages(img)
device_tree_offset_in_pages(img) ==
    second_ramdisk_offset_in_pages(img) + second_ramdisk_size_in_pages(img)

header_offset(img) == header_offset_in_pages(img) * page_size(img)
kernel_offset(img) == kernel_offset_in_pages(img) * page_size(img)
ramdisk_offset(img) == ramdisk_offset_in_pages(img) * page_size(img)
second_ramdisk_offset(img) == second_ramdisk_offset_in_pages(img) * page_size(img)
device_tree_offset(img) == device_tree_offset_in_pages(img) * page_size(img)

(***************************************************************************)
(* Reading and writing a boot image (image/samsung.rs).                    *)
(***************************************************************************)
\* A source R: Read + Seek over a fixed sequence of bytes, with a position
\* that may lie past the end.
NewSource(bytes) == [bytes |-> bytes, pos |-> 0]

\* Read::read_exact: n bytes from the position, or an error when fewer remain.
read_exact(source, n) ==
    IF n = 0
    THEN [ok |-> TRUE, buffer |-> <<>>, source |-> source]
    ELSE IF source.pos + n <= Len(source.bytes)
    THEN [ok |-> TRUE,
          buffer |-> SubSeq(source.bytes, source.pos + 1, source.pos + n),
          source |-> [source EXCEPT !.pos = @ + n]]
    ELSE [ok |-> FALSE, source |-> [source EXCEPT !.pos = Len(source.bytes)]]

\* Seek::seek(SeekFrom::Start(offset))
seek_start(source, offset) == [source EXCEPT !.pos = offset]

\* SamsungHeader::read_from
header_read_from(source) ==
    LET r == read_exact(source, SAMSUNG_HEADER_SIZE) IN
    IF r.ok
    THEN [ok |-> TRUE, header |-> parse(r.buffer), source |-> r.source]
    ELSE [ok |-> FALSE, err |-> "Io", source |-> r.source]

None == [some |-> FALSE]
Some(v) == [some |-> TRUE, value |-> v]
unwrap_or(opt, default) == IF opt.some THEN opt.value ELSE default

\* Variant: a failed read_exact of a section is not propagated, the zeroed
\* buffer is kept.
read_section_unchecked(source, offset, size) ==
    LET r == read_exact(seek_start(source, offset), size) IN
    IF r.ok THEN r
    ELSE [ok |-> TRUE, buffer |-> Zeros(size), source |-> r.source]

\* One section block of read_from: the buffer is sized from the header read
\* from the source, the offset is the image's own.
read_section(source, offset, size) == read_exact(seek_start(source, offset), size)

\* SamsungBootImage::read_from.  The outcome is an image, an Io error, or a
\* panic raised by `.unwrap()` on a rejected header.
read_from(source, override_page_size) ==
    LET hr == header_read_from(source) IN
    IF ~hr.ok THEN [kind |-> "Err", err |-> "Io"] ELSE
    LET header == [hr.header EXCEPT !.page_size = unwrap_or(override_page_size, @)]
        ih     == insert_header(DefaultBootImage, header)
    IN
    IF ~ih.ret.ok THEN [kind |-> "panic", cause |-> ih.ret] ELSE
    LET img0 == ih.image
        k    == read_section(hr.source, kernel_offset(img0), header.kernel_size)
    IN
    IF ~k.ok THEN [kind |-> "Err", err |-> "Io"] ELSE
    LET img1 == insert_kernel(img0, k.buffer).image
        r    == read_section(k.source, ramdisk_offset(img1), header.ramdisk_size)
    IN
    IF ~r.ok THEN [kind |-> "Err", err |-> "Io"] ELSE
    LET img2 == insert_ramdisk(img1, r.buffer).image
        s    == read_section(r.source, second_ramdisk_offset(img2), header.second_size)
    IN
    IF ~s.ok THEN [kind |-> "Err", err |-> "Io"] ELSE
    LET img3 == insert_second_ramdisk(img2, s.buffer).image
        d    == read_section(s.source, device_tree_offset(img3), header.device_tree_size)
    IN
    IF ~d.ok THEN [kind |-> "Err", err |-> "Io"] ELSE
    [kind |-> "Ok", image |-> insert_device_tree(img3, d.buffer).image]

write_header_to(img, target) == write_to(img.header, target)

\* write_kernel_to, write_ramdisk_to, write_second_ramdisk_to and
\* write_device_tree_to: write_all of the buffer, then its length.
write_buffer_to(buffer, target) ==
    LET w == write_all(target, buffer) IN
    IF w.ok
    THEN [dst |-> w.dst, ret |-> [ok |-> TRUE, value |-> Len(buffer)]]
    ELSE [dst |-> w.dst, ret |-> [ok |-> FALSE, err |-> "Io"]]

\* Variant: the result of writing the kernel is not examined.
image_write_to_kernel_unchecked(img, target) ==
    LET h == write_header_to(img, target) IN
    IF ~h.ret.ok THEN h ELSE
    LET k == write_buffer_to(img.kernel, h.dst)
        r == write_buffer_to(img.ramdisk, k.dst)
    IN
    IF ~r.ret.ok THEN r ELSE
    LET s == write_buffer_to(img.second_ramdisk, r.dst) IN
    IF ~s.ret.ok THEN s ELSE
    LET d == write_buffer_to(img.device_tree, s.dst) IN
    IF ~d.ret.ok THEN d ELSE
    [dst |-> d.dst,
     ret |-> [ok |-> TRUE,
              value |-> h.ret.value + Len(img.kernel) + r.ret.value + s.ret.value + d.ret.value]]

\* SamsungBootImage::write_to
image_write_to(img, target) ==
    LET h == write_header_to(img, target) IN
    IF ~h.ret.ok THEN h ELSE
    LET k == write_buffer_to(img.kernel, h.dst) IN
    IF ~k.ret.ok THEN k ELSE
    LET r == write_buffer_to(img.ramdisk, k.dst) IN
    IF ~r.ret.ok THEN r ELSE
    LET s == write_buffer_to(img.second_ramdisk, r.dst) IN
    IF ~s.ret.ok THEN s ELSE
    LET d == write_buffer_to(img.device_tree, s.dst) IN
    IF ~d.ret.ok THEN d ELSE
    [dst |-> d.dst,
     ret |-> [ok |-> TRUE,
              value |-> h.ret.value + k.ret.value + r.ret.value + s.ret.value + d.ret.value]]

(***************************************************************************)
(* Natural numbers of any size, for the values of usize and u64 that the   *)
(* integers of the checker cannot hold: a number is the sequence of its    *)
(* digits in base 65536, lowest first, without leading zeros (0 is <<>>).  *)
(***************************************************************************)
\* The digits without the zeros at the high end.
Trim(a) ==
    LET used == {i \in 1..Len(a) : a[i] # 0} IN
    IF used = {} THEN <<>>
    ELSE SubSeq(a, 1, CHOOSE i \in used : \A j \in used : j <= i)

\* The number of a small integer n >= 0.
Wide(n) == Trim(<<n % 65536, n \div 65536>>)

\* Digit i (from 1) of a, 0 beyond its length.
Digit(a, i) == IF i <= Len(a) THEN a[i] ELSE 0

\* 2^k
Pow2(k) == [i \in 1..((k \div 16) + 1) |-> IF i = (k \div 16) + 1 THEN 2^(k % 16) ELSE 0]

\* a + b + carry, digit by digit from position i on.
RECURSIVE AddFrom(_, _, _, _)
AddFrom(a, b, i, carry) ==
    IF i > Len(a) /\ i > Len(b)
    THEN (IF carry = 1 THEN <<1>> ELSE <<>>)
    ELSE LET t == Digit(a, i) + Digit(b, i) + carry
         IN  <<t % 65536>> \o AddFrom(a, b, i + 1, t \div 65536)

WAdd(a, b) == AddFrom(a, b, 1, 0)

\* a - b - borrow for a >= b, digit by digit from position i on.
RECURSIVE SubFrom(_, _, _, _)
SubFrom(a, b, i, borrow) ==
    IF i > Len(a) THEN <<>>
    ELSE LET t == Digit(a, i) - Digit(b, i) - borrow
         IN  <<(t + 65536) % 65536>> \o SubFrom(a, b, i + 1, IF t < 0 THEN 1 ELSE 0)

WSub(a, b) == Trim(SubFrom(a, b, 1, 0))

\* a < b: fewer digits, or smaller at the highest digit that differs.
WLess(a, b) ==
    IF Len(a) # Len(b) THEN Len(a) < Len(b)
    ELSE \E i \in 1..Len(a) :
             /\ a[i] < b[i]
             /\ \A j \in (i + 1)..Len(a) : a[j] = b[j]

WLeq(a, b) == ~WLess(b, a)

\* a * d for one digit d, from the digit i of a on with the carry of the
\* lower digits; a digit product a[i] * d is at most (2^16 - 1)^2, so it is
\* taken as 2 * (a[i] * (d \div 2)) + (d % 2) * a[i].
RECURSIVE TimesDigitFrom(_, _, _, _)
TimesDigitFrom(a, d, i, carry) ==
    IF i > Len(a) THEN (IF carry = 0 THEN <<>> ELSE <<carry>>)
    ELSE LET t   == a[i] * (d \div 2)
             low == 2 * (t % 32768) + (d % 2) * a[i] + carry
         IN  <<low % 65536>> \o
             TimesDigitFrom(a, d, i + 1, (t \div 32768) + (low \div 65536))

TimesDigit(a, d) == Trim(TimesDigitFrom(a, d, 1, 0))

\* a * b: the products of a with the digits of b from position i on.
RECURSIVE MulFrom(_, _, _)
MulFrom(a, b, i) ==
    IF i > Len(b) THEN <<>>
    ELSE LET rest    == MulFrom(a, b, i + 1)
             shifted == IF rest = <<>> THEN <<>> ELSE <<0>> \o rest
         IN  WAdd(shifted, TimesDigit(a, b[i]))

WMul(a, b) == MulFrom(a, b, 1)

\* The four bits of a quotient digit from bit k up, given the higher bits d:
\* the largest x with (d + x * 2^k) * b <= r.
DigitStep(b, r, d, k) ==
    d + 2^k * (CHOOSE x \in 0..15 :
                  /\ WLeq(TimesDigit(b, d + x * 2^k), r)
                  /\ x = 15 \/ ~WLeq(TimesDigit(b, d + (x + 1) * 2^k), r))

\* The largest digit d with d * b <= r.
QuotientDigit(b, r) ==
    DigitStep(b, r, DigitStep(b, r, DigitStep(b, r, DigitStep(b, r, 0, 12), 8), 4), 0)

\* Long division by b > 0 of the number made of the digits of a from i up:
\* its quotient and its remainder.
RECURSIVE DivFrom(_, _, _)
DivFrom(a, b, i) ==
    IF i > Len(a) THEN [quotient |-> <<>>, remainder |-> <<>>]
    ELSE LET higher == DivFrom(a, b, i + 1)
         IN  IF higher.remainder = <<>> /\ a[i] = 0
             THEN [quotient  |-> Trim(<<0>> \o higher.quotient),
                   remainder |-> <<>>]
             ELSE LET r2 == Trim(<<a[i]>> \o higher.remainder)
                      d  == QuotientDigit(b, r2)
                  IN  [quotient  |-> Trim(<<d>> \o higher.quotient),
                       remainder |-> WSub(r2, TimesDigit(b, d))]

WDiv(a, b) == DivFrom(a, b, 1).quotient

\* a mod 2^w for w a multiple of 16: the low w / 16 digits.
LowBits(a, w) ==
    Trim(SubSeq(a, 1, IF Len(a) < w \div 16 THEN Len(a) ELSE w \div 16))

(***************************************************************************)
(* Section catalog and layout calculator (header.rs).                      *)
(***************************************************************************)
SECTIONS == <<"Header", "Kernel", "Ramdisk", "Second", "DeviceTree">>

\* Variant: the header is taken to occupy no bytes.
section_size_no_header(h, section) ==
    CASE section = "Header"     -> 0
      [] section = "Kernel"     -> h.kernel_size
      [] section = "Ramdisk"    -> h.ramdisk_size
      [] section = "Second"     -> h.second_size
      [] section = "DeviceTree" -> h.device_tree_size

section_size(h, section) ==
    CASE section = "Header"     -> HEADER_SIZE
      [] section = "Kernel"     -> h.kernel_size
      [] section = "Ramdisk"    -> h.ramdisk_size
      [] section = "Second"     -> h.second_size
      [] section = "DeviceTree" -> h.device_tree_size

\* Variant: the prefix also takes the first element equal to x.
RECURSIVE take_while_inclusive(_, _)
take_while_inclusive(s, x) ==
    IF s = <<>> THEN <<>>
    ELSE IF Head(s) = x THEN <<Head(s)>>
    ELSE <<Head(s)>> \o take_while_inclusive(Tail(s), x)

\* Iterator::take_while: the longest prefix of s whose elements all differ from x.
RECURSIVE take_while_ne(_, _)
take_while_ne(s, x) ==
    IF s = <<>> \/ Head(s) = x THEN <<>> ELSE <<Head(s)>> \o take_while_ne(Tail(s), x)

\* Variant: the page count is the quotient plus one.
pages_of_plus_one(h, section) == (section_size(h, section) \div h.page_size) + 1

\* Variant: the page count is rounded down.
pages_of_floor(h, section) == section_size(h, section) \div h.page_size

\* The closure mapped over the preceding sections: the pages one occupies.
pages_of(h, section) == (section_size(h, section) + h.page_size - 1) \div h.page_size

\* Iterator::sum over the page counts of the sections in s.
RECURSIVE sum_pages(_, _)
sum_pages(h, s) ==
    IF s = <<>> THEN 0 ELSE pages_of(h, Head(s)) + sum_pages(h, Tail(s))

\* Variant: the page size check exempts the first section.
section_start_header_exempt(h, section) ==
    IF section = "Header"
    THEN [ok |-> TRUE, value |-> 0]
    ELSE IF h.page_size = 0
    THEN [ok |-> FALSE, err |-> "NoPageSize"]
    ELSE LET offset_in_pages == sum_pages(h, take_while_ne(SECTIONS, section))
         IN  [ok |-> TRUE, value |-> offset_in_pages * h.page_size]

section_start(h, section) ==
    IF h.page_size = 0
    THEN [ok |-> FALSE, err |-> "NoPageSize"]
    ELSE LET offset_in_pages == sum_pages(h, take_while_ne(SECTIONS, section))
         IN  [ok |-> TRUE, value |-> offset_in_pages * h.page_size]

section_location(h, section) ==
    LET start == section_start(h, section) IN
    IF ~start.ok THEN start
    ELSE [ok |-> TRUE, value |-> <<start.value, section_size(h, section)>>]

RECURSIVE filter_present(_, _)
filter_present(h, s) ==
    IF s = <<>> THEN <<>>
    ELSE (IF section_size(h, Head(s)) > 0 THEN <<Head(s)>> ELSE <<>>)
         \o filter_present(h, Tail(s))

\* Variant: the catalog is returned unfiltered.
sections_unfiltered(h) == SECTIONS

sections(h) == filter_present(h, SECTIONS)

(***************************************************************************)
(* Inputs offered to the boot image model.                                 *)
(***************************************************************************)
\* A buffer of n bytes whose contents tell the sections apart.
Buffer(n, first) == [i \in 1..n |-> (first + i) % 256]

Buffers(first) == { Buffer(n, first) : n \in 0..MaxBufLen }

BadMagicBytes == <<65, 78, 68, 82, 79, 73, 68, 63>>

\* Headers a caller may offer: right or wrong magic, zero or non-zero page
\* size, size fields that do not match the image's buffers.
OfferedHeaders ==
    { [DefaultHeader EXCEPT
          !.magic               = m,
          !.page_size           = p,
          !.kernel_size         = s,
          !.ramdisk_size        = s + 1,
          !.second_size         = 0,
          !.device_tree_size    = 5000,
          !.kernel_load_address = 32768 + p,
          !.reserved            = p,
          !.product_name        = [i \in 1..PRODUCT_NAME_SIZE |-> IF i <= 3 THEN 64 + p ELSE 0]]
      : m \in {SAMSUNG_MAGIC, BadMagicBytes}, p \in {0, 1, 2, 4}, s \in {0, 7} }

Idle == [pc |-> "idle"]

Init ==
    /\ boot_image = DefaultBootImage
    /\ call = [op |-> "default", arg |-> <<>>, ret |-> <<>>, pre |-> DefaultBootImage]
    /\ codec = Idle
    /\ layout = Idle
    /\ io = Idle

Called(op, arg, r) == [op |-> op, arg |-> arg, ret |-> r.ret, pre |-> boot_image]

InsertHeader ==
    \E h \in OfferedHeaders :
        LET r == insert_header(boot_image, h) IN
        /\ boot_image' = r.image
        /\ call' = Called("insert_header", h, r)
        /\ UNCHANGED <<codec, layout, io>>

\* Kernels offered: the short buffers and one of several 2048-byte pages.
KernelBuffers == Buffers(10) \cup { Buffer(5000, 10) }

InsertKernel ==
    \E b \in KernelBuffers :
        LET r == insert_kernel(boot_image, b) IN
        /\ boot_image' = r.image
        /\ call' = Called("insert_kernel", b, r)
        /\ UNCHANGED <<codec, layout, io>>

InsertRamdisk ==
    \E b \in Buffers(20) :
        LET r == insert_ramdisk(boot_image, b) IN
        /\ boot_image' = r.image
        /\ call' = Called("insert_ramdisk", b, r)
        /\ UNCHANGED <<codec, layout, io>>

InsertSecondRamdisk ==
    \E b \in Buffers(30) :
        LET r == insert_second_ramdisk(boot_image, b) IN
        /\ boot_image' = r.image
        /\ call' = Called("insert_second_ramdisk", b, r)
        /\ UNCHANGED <<codec, layout, io>>

InsertDeviceTree ==
    \E b \in Buffers(40) :
        LET r == insert_device_tree(boot_image, b) IN
        /\ boot_image' = r.image
        /\ call' = Called("insert_device_tree", b, r)
        /\ UNCHANGED <<codec, layout, io>>

Next ==
    \/ InsertHeader
    \/ InsertKernel
    \/ InsertRamdisk
    \/ InsertSecondRamdisk
    \/ InsertDeviceTree

Spec == Init /\ [][Next]_vars

(***************************************************************************)
(* Layout calculator runs: a header with arbitrary size fields and page    *)
(* size, then section_start and section_location for one target section.   *)
(***************************************************************************)
LayoutSizes == 0..MaxSectionSize \cup {5000}

LayoutPageSizes == 0..MaxPageSize \cup {2048}

LayoutHeaders ==
    { [DefaultHeader EXCEPT
          !.kernel_size      = k,
          !.ramdisk_size     = r,
          !.second_size      = s,
          !.device_tree_size = d,
          !.page_size        = p]
      : k \in LayoutSizes, r \in LayoutSizes, s \in LayoutSizes,
        d \in {0, MaxSectionSize}, p \in LayoutPageSizes }

InitLayout ==
    /\ boot_image = DefaultBootImage
    /\ call = [op |-> "default", arg |-> <<>>, ret |-> <<>>, pre |-> DefaultBootImage]
    /\ codec = Idle
    /\ io = Idle
    /\ layout \in { [pc |-> "header", header |-> h] : h \in LayoutHeaders }

SectionLocation ==
    /\ layout.pc = "header"
    /\ \E target \in {SECTIONS[i] : i \in 1..Len(SECTIONS)} :
           layout' = [pc       |-> "located",
                      header   |-> layout.header,
                      target   |-> target,
                      start    |-> section_start(layout.header, target),
                      location |-> section_location(layout.header, target)]
    /\ UNCHANGED <<boot_image, call, codec, io>>

ListSections ==
    /\ layout.pc = "header"
    /\ layout' = [pc       |-> "listed",
                  header   |-> layout.header,
                  sections |-> sections(layout.header)]
    /\ UNCHANGED <<boot_image, call, codec, io>>

NextLayout ==
    \/ SectionLocation
    \/ ListSections

SpecLayout == InitLayout /\ [][NextLayout]_vars

(***************************************************************************)
(* Header codec runs: a 616-byte buffer is parsed and the header obtained  *)
(* is written to a fresh destination.                                      *)
(***************************************************************************)
\* The little-endian bytes of a 32-bit value.
LeBytes(v) == <<v % 256, (v \div 256) % 256, (v \div 65536) % 256, (v \div 16777216) % 256>>

\* The on-disk image of a header as the format lays it out.
DiskImage(h) ==
    h.magic
    \o LeBytes(h.kernel_size) \o LeBytes(h.kernel_load_address)
    \o LeBytes(h.ramdisk_size) \o LeBytes(h.ramdisk_load_address)
    \o LeBytes(h.second_size) \o LeBytes(h.second_load_address)
    \o LeBytes(h.device_tree_size) \o LeBytes(h.reserved)
    \o LeBytes(h.kernel_tags_address) \o LeBytes(h.page_size)
    \o h.product_name
    \o [i \in 1..BOOT_ARGUMENTS_SIZE |-> h.boot_arguments[((i - 1) \div 32) + 1][((i - 1) % 32) + 1]]
    \o h.unique_id

\* The value of the four little-endian bytes at 0-based offset off of b.
LeAt(b, off) ==
    b[off + 1] + 256 * b[off + 2] + 65536 * b[off + 3] + 16777216 * b[off + 4]

\* The header a 616-byte on-disk image denotes in the format: the inverse of
\* DiskImage, field by field at consecutive offsets.
FormatHeader(b) ==
    [ magic               |-> SubSeq(b, 1, 8),
      kernel_size         |-> LeAt(b, 8),
      kernel_load_address |-> LeAt(b, 12),
      ramdisk_size        |-> LeAt(b, 16),
      ramdisk_load_address |-> LeAt(b, 20),
      second_size         |-> LeAt(b, 24),
      second_load_address |-> LeAt(b, 28),
      device_tree_size    |-> LeAt(b, 32),
      reserved            |-> LeAt(b, 36),
      kernel_tags_address |-> LeAt(b, 40),
      page_size           |-> LeAt(b, 44),
      product_name        |-> SubSeq(b, 49, 72),
      boot_arguments      |-> [r \in 1..16 |-> SubSeq(b, 72 + 32 * (r - 1) + 1, 72 + 32 * r)],
      unique_id           |-> SubSeq(b, 585, 616) ]

\* Buffers whose byte at offset i is (first + step * i) mod 128.
RampBuffer(first, step) ==
    [i \in 1..SAMSUNG_HEADER_SIZE |-> (first + step * (i - 1)) % 128]

CodecBuffers ==
    { RampBuffer(first, step) : first \in {0, 65}, step \in 0..MaxRampStep \cup {32} }
    \cup { DiskImage(h) :
              h \in OfferedHeaders \cup {DefaultHeader, [DefaultHeader EXCEPT !.kernel_size = 5000]} }

Unlimited == 1000000

Destinations ==
    { NewDestination(f, e, c) :
        f \in BOOLEAN, e \in BOOLEAN, c \in {Unlimited, SAMSUNG_HEADER_SIZE - 1, 0} }

InitCodec ==
    /\ boot_image = DefaultBootImage
    /\ call = [op |-> "default", arg |-> <<>>, ret |-> <<>>, pre |-> DefaultBootImage]
    /\ layout = Idle
    /\ io = Idle
    /\ codec \in { [pc |-> "buffer", buffer |-> b, dst |-> d] :
                     b \in CodecBuffers, d \in Destinations }

Parse ==
    /\ codec.pc = "buffer"
    /\ codec' = [pc |-> "parsed", buffer |-> codec.buffer, dst |-> codec.dst,
                 header |-> parse(codec.buffer)]
    /\ UNCHANGED <<boot_image, call, layout, io>>

WriteHeader ==
    /\ codec.pc = "parsed"
    /\ LET w == write_to(codec.header, codec.dst) IN
       codec' = [pc |-> "written", buffer |-> codec.buffer, header |-> codec.header,
                 dst |-> w.dst, ret |-> w.ret]
    /\ UNCHANGED <<boot_image, call, layout, io>>

NextCodec ==
    \/ Parse
    \/ WriteHeader

SpecCodec == InitCodec /\ [][NextCodec]_vars

(***************************************************************************)
(* Image input/output runs: an image built by the insert operations is     *)
(* written to a fresh destination, and what the destination received is    *)
(* read back.                                                              *)
(***************************************************************************)
AcceptedHeaders == { h \in OfferedHeaders \cup {DefaultHeader} : insert_header(DefaultBootImage, h).ret.ok }

BuildImage(h, k, r, s, d) ==
    insert_device_tree(
        insert_second_ramdisk(
            insert_ramdisk(
                insert_kernel(insert_header(DefaultBootImage, h).image, k).image,
                r).image,
            s).image,
        d).image

BuiltImages ==
    { BuildImage(h, k, r, s, d) :
        h \in AcceptedHeaders, k \in Buffers(10), r \in Buffers(20),
        s \in Buffers(30), d \in Buffers(40) }

Targets ==
    { NewDestination(f, e, c) :
        f \in BOOLEAN, e \in BOOLEAN, c \in {Unlimited, SAMSUNG_HEADER_SIZE + 1, 100} }

\* bytes followed by zero bytes up to the next multiple of p.
PadTo(bytes, p) == bytes \o Zeros((p - (Len(bytes) % p)) % p)

\* A stream laid out as the format prescribes with pages of p bytes: the
\* header h with its size fields set to the lengths of the four sections,
\* then each section, every one padded to a page boundary.
StreamOf(h, p, k, r, s, d) ==
    PadTo(DiskImage([h EXCEPT !.kernel_size = Len(k), !.ramdisk_size = Len(r),
                              !.second_size = Len(s), !.device_tree_size = Len(d)]), p)
    \o PadTo(k, p) \o PadTo(r, p) \o PadTo(s, p) \o PadTo(d, p)

StreamPageSizes == {4, 16}

\* The first n bytes of a stream.
Truncate(b, n) == SubSeq(b, 1, IF n < Len(b) THEN n ELSE Len(b))

\* Streams offered to read_from: well laid out images with the right or the
\* wrong magic, with their page size or 0 in the header, whole or cut short
\* in the last section or inside the header.
Streams ==
    { Truncate(StreamOf([DefaultHeader EXCEPT !.magic = m, !.page_size = hp], p, k, r, s, d),
               Len(StreamOf(DefaultHeader, p, k, r, s, d)) - cut)
      : m \in {SAMSUNG_MAGIC, BadMagicBytes}, p \in StreamPageSizes, hp \in {0, 4, 16},
        k \in Buffers(10), r \in Buffers(20), s \in {<<>>, Buffer(1, 30)},
        d \in {<<>>, Buffer(2, 40)}, cut \in {0, 16, 100} }

Overrides == {None} \cup { Some(v) : v \in {0} \cup StreamPageSizes }

InitIO ==
    /\ boot_image = DefaultBootImage
    /\ call = [op |-> "default", arg |-> <<>>, ret |-> <<>>, pre |-> DefaultBootImage]
    /\ codec = Idle
    /\ layout = Idle
    /\ io \in { [pc |-> "image", image |-> img, target |-> t] :
                  img \in BuiltImages, t \in Targets }
             \cup { [pc |-> "stream", stream |-> b, override_page_size |-> ov] :
                      b \in Streams, ov \in Overrides }

WriteImage ==
    /\ io.pc = "image"
    /\ LET w == image_write_to(io.image, io.target) IN
       io' = [pc |-> "written", image |-> io.image, target |-> w.dst, ret |-> w.ret]
    /\ UNCHANGED <<boot_image, call, codec, layout>>

ReadBack ==
    /\ io.pc = "written"
    /\ io.ret.ok
    /\ \E ov \in {None, Some(page_size(io.image)), Some(0)} :
           io' = [pc |-> "read", image |-> io.image, target |-> io.target,
                  ret |-> io.ret, override_page_size |-> ov,
                  result |-> read_from(NewSource(io.target.out), ov)]
    /\ UNCHANGED <<boot_image, call, codec, layout>>

ReadStream ==
    /\ io.pc = "stream"
    /\ io' = [pc |-> "streamed", stream |-> io.stream,
              override_page_size |-> io.override_page_size,
              result |-> read_from(NewSource(io.stream), io.override_page_size)]
    /\ UNCHANGED <<boot_image, call, codec, layout>>

NextIO ==
    \/ WriteImage
    \/ ReadBack
    \/ ReadStream

SpecIO == InitIO /\ [][NextIO]_vars

(***************************************************************************)
(* Images with buffers of any length.  A buffer is given by its length     *)
(* alone, a usize held as a wide number, and the four size fields of the   *)
(* header are wide numbers below 2^32; the operations are those of the     *)
(* boot image model on this representation.                                *)
(***************************************************************************)
\* Variant: the cast saturates at u32::MAX.
usize_as_u32_saturating(n) ==
    IF Len(n) > 2 THEN <<65535, 65535>> ELSE n

\* `n as u32` for a usize n: the low 32 bits.
usize_as_u32(n) == LowBits(n, 32)

DefaultWideImage ==
    [ header         |-> [DefaultHeader EXCEPT !.kernel_size = <<>>, !.ramdisk_size = <<>>,
                                               !.second_size = <<>>, !.device_tree_size = <<>>],
      kernel         |-> <<>>,
      ramdisk        |-> <<>>,
      second_ramdisk |-> <<>>,
      device_tree    |-> <<>> ]

update_all_sizes_wide(img) ==
    [img EXCEPT !.header =
        [img.header EXCEPT
            !.kernel_size      = usize_as_u32(img.kernel),
            !.ramdisk_size     = usize_as_u32(img.ramdisk),
            !.second_size      = usize_as_u32(img.second_ramdisk),
            !.device_tree_size = usize_as_u32(img.device_tree)]]

insert_header_wide(img, new_header) ==
    IF ~has_correct_magic(new_header)
    THEN [image |-> img,
          ret   |-> [ok |-> FALSE, err |-> "BadMagic", header |-> new_header]]
    ELSE IF new_header.page_size = 0
    THEN [image |-> img,
          ret   |-> [ok |-> FALSE, err |-> "NoPageSize", header |-> new_header]]
    ELSE [image |-> update_all_sizes_wide([img EXCEPT !.header = new_header]),
          ret   |-> [ok |-> TRUE, value |-> img.header]]

insert_kernel_wide(img, new_kernel) ==
    [image |-> [img EXCEPT !.header.kernel_size = usize_as_u32(new_kernel),
                           !.kernel = new_kernel],
     ret   |-> img.kernel]

insert_ramdisk_wide(img, new_ramdisk) ==
    [image |-> [img EXCEPT !.header.ramdisk_size = usize_as_u32(new_ramdisk),
                           !.ramdisk = new_ramdisk],
     ret   |-> img.ramdisk]

insert_second_ramdisk_wide(img, new_second_ramdisk) ==
    [image |-> [img EXCEPT !.header.second_size = usize_as_u32(new_second_ramdisk),
                           !.second_ramdisk = new_second_ramdisk],
     ret   |-> img.second_ramdisk]

insert_device_tree_wide(img, new_device_tree) ==
    [image |-> [img EXCEPT !.header.device_tree_size = usize_as_u32(new_device_tree),
                           !.device_tree = new_device_tree],
     ret   |-> img.device_tree]

\* Buffer lengths on both sides of 2^32, up to the longest a Vec can have.
WideLengths ==
    { <<>>, Wide(5), WSub(Pow2(32), Wide(1)), Pow2(32), WAdd(Pow2(32), Wide(5)),
      WSub(Pow2(63), Wide(1)) }

\* Headers offered: right or wrong magic, page size 0 or 4, and size
\* fields, equal to one another, that need not match the image's buffers.
WideOfferedHeaders ==
    { [DefaultHeader EXCEPT
          !.magic = m, !.page_size = p, !.kernel_size = z, !.ramdisk_size = z,
          !.second_size = z, !.device_tree_size = z]
      : m \in {SAMSUNG_MAGIC, BadMagicBytes}, p \in {0, 4},
        z \in {<<>>, WSub(Pow2(32), Wide(1))} }

InitWide ==
    /\ boot_image = DefaultWideImage
    /\ call = [op |-> "default", arg |-> <<>>, ret |-> <<>>]
    /\ codec = Idle
    /\ layout = Idle
    /\ io = Idle

InsertHeaderWide ==
    \E h \in WideOfferedHeaders :
        LET r == insert_header_wide(boot_image, h) IN
        /\ boot_image' = r.image
        /\ call' = [op |-> "insert_header", arg |-> h, ret |-> r.ret]
        /\ UNCHANGED <<codec, layout, io>>

InsertKernelWide ==
    \E n \in WideLengths :
        LET r == insert_kernel_wide(boot_image, n) IN
        /\ boot_image' = r.image
        /\ call' = [op |-> "insert_kernel", arg |-> n, ret |-> r.ret]
        /\ UNCHANGED <<codec, layout, io>>

InsertRamdiskWide ==
    \E n \in {<<>>, Pow2(32)} :
        LET r == insert_ramdisk_wide(boot_image, n) IN
        /\ boot_image' = r.image
        /\ call' = [op |-> "insert_ramdisk", arg |-> n, ret |-> r.ret]
        /\ UNCHANGED <<codec, layout, io>>

InsertSecondRamdiskWide ==
    \E n \in {Wide(5), WAdd(Pow2(32), Wide(5))} :
        LET r == insert_second_ramdisk_wide(boot_image, n) IN
        /\ boot_image' = r.image
        /\ call' = [op |-> "insert_second_ramdisk", arg |-> n, ret |-> r.ret]
        /\ UNCHANGED <<codec, layout, io>>

InsertDeviceTreeWide ==
    \E n \in {<<>>, WSub(Pow2(32), Wide(1)), WSub(Pow2(63), Wide(1))} :
        LET r == insert_device_tree_wide(boot_image, n) IN
        /\ boot_image' = r.image
        /\ call' = [op |-> "insert_device_tree", arg |-> n, ret |-> r.ret]
        /\ UNCHANGED <<codec, layout, io>>

NextWide ==
    \/ InsertHeaderWide
    \/ InsertKernelWide
    \/ InsertRamdiskWide
    \/ InsertSecondRamdiskWide
    \/ InsertDeviceTreeWide

SpecWide == InitWide /\ [][NextWide]_vars

(***************************************************************************)
(* The layout calculator on the full range of its inputs: the size fields  *)
(* and the page size of the header are wide numbers below 2^32, and the    *)
(* arithmetic is that of u64.  An operation whose exact result does not    *)
(* fit panics in a build with overflow checks and wraps in one without:    *)
(* the result carries the wrapped value and whether that happened.         *)
(***************************************************************************)
\* Variant: the arithmetic is done in 32 bits.
u32_result(exact) == [overflowed |-> Len(exact) > 2, value |-> LowBits(exact, 32)]

\* The outcome of a u64 operation whose exact result is given.
u64_result(exact) == [overflowed |-> Len(exact) > 4, value |-> LowBits(exact, 64)]

\* Header::section_size: the field `as u64`.
section_size_u64(h, section) ==
    CASE section = "Header"     -> Wide(HEADER_SIZE)
      [] section = "Kernel"     -> h.kernel_size
      [] section = "Ramdisk"    -> h.ramdisk_size
      [] section = "Second"     -> h.second_size
      [] section = "DeviceTree" -> h.device_tree_size

\* The closure of section_start: (size + page_size - 1) / page_size.
pages_of_u64(h, section) ==
    LET plus  == u64_result(WAdd(section_size_u64(h, section), h.page_size))
        under == plus.value = <<>>
        minus == IF under THEN WSub(Pow2(64), Wide(1)) ELSE WSub(plus.value, Wide(1))
    IN  [overflowed |-> plus.overflowed \/ under, value |-> WDiv(minus, h.page_size)]

\* Iterator::sum over the page counts of the first n sections of s.
RECURSIVE sum_pages_u64(_, _, _)
sum_pages_u64(h, s, n) ==
    IF n = 0 THEN [value |-> <<>>, overflowed |-> FALSE]
    ELSE LET acc   == sum_pages_u64(h, s, n - 1)
             pages == pages_of_u64(h, s[n])
             total == u64_result(WAdd(acc.value, pages.value))
         IN  [overflowed |-> acc.overflowed \/ pages.overflowed \/ total.overflowed,
              value      |-> total.value]

section_start_u64(h, section) ==
    IF h.page_size = <<>>
    THEN [ok |-> FALSE, err |-> "NoPageSize"]
    ELSE LET before          == take_while_ne(SECTIONS, section)
             offset_in_pages == sum_pages_u64(h, before, Len(before))
             product == u64_result(WMul(offset_in_pages.value, h.page_size))
         IN  [ok |-> TRUE,
              overflowed |-> offset_in_pages.overflowed \/ product.overflowed,
              value      |-> product.value]

\* Values of a u32 field: small ones, and those next to 2^31 and 2^32.
WideSizes == { <<>>, Wide(5000), Pow2(31), WSub(Pow2(32), Wide(1)) }

WidePageSizes ==
    { <<>>, Wide(1), Wide(2048), WAdd(Pow2(31), Wide(1)), WSub(Pow2(32), Wide(1)) }

WideLayoutHeaders ==
    { [DefaultHeader EXCEPT
          !.kernel_size      = k,
          !.ramdisk_size     = r,
          !.second_size      = z,
          !.device_tree_size = WSub(Pow2(32), Wide(1)),
          !.page_size        = p]
      : k \in WideSizes, r \in WideSizes \ {Pow2(31)},
        z \in {<<>>, WSub(Pow2(32), Wide(1))}, p \in WidePageSizes }

InitWideLayout ==
    /\ boot_image = DefaultBootImage
    /\ call = [op |-> "default", arg |-> <<>>, ret |-> <<>>, pre |-> DefaultBootImage]
    /\ codec = Idle
    /\ io = Idle
    /\ layout \in { [pc |-> "header", header |-> h] : h \in WideLayoutHeaders }

SectionStartWide ==
    /\ layout.pc = "header"
    /\ \E target \in {SECTIONS[i] : i \in 1..Len(SECTIONS)} :
           layout' = [pc     |-> "located",
                      header |-> layout.header,
                      target |-> target,
                      start  |-> section_start_u64(layout.header, target)]
    /\ UNCHANGED <<boot_image, call, codec, io>>

NextWideLayout == SectionStartWide

SpecWideLayout == InitWideLayout /\ [][NextWideLayout]_vars

(***************************************************************************)
(* The life of an image as a whole: either it is built in place by the     *)
(* insert operations, or it is written out and read in.                    *)
(***************************************************************************)
InitImage == Init \/ InitIO

NextImage ==
    \/ io = Idle /\ Next
    \/ NextIO

SpecImage == InitImage /\ [][NextImage]_vars

(***************************************************************************)
(* Properties of the boot image model, checked under Spec.                 *)
(***************************************************************************)
AndroidMagic == <<65, 78, 68, 82, 79, 73, 68, 33>>   \* "ANDROID!"

Buffers4(img) == <<img.kernel, img.ramdisk, img.second_ramdisk, img.device_tree>>

C4_BadMagicRejected ==
    (call.op = "insert_header" /\ call.arg.magic # AndroidMagic) =>
        /\ call.ret = [ok |-> FALSE, err |-> "BadMagic", header |-> call.arg]
        /\ boot_image.header = call.pre.header
        /\ Buffers4(boot_image) = Buffers4(call.pre)

\* A bad-magic header offered to an image that is no longer the default one.
C4_Witness ==
    /\ call.op = "insert_header"
    /\ call.arg.magic # AndroidMagic
    /\ call.arg.page_size # 0
    /\ ~call.ret.ok
    /\ call.pre.header.page_size # 2048
    /\ call.pre.kernel # <<>>

\* C8: section_start(Header) is 0 for every header with a non-zero page size,
\* whatever its size fields (the stored header and the header last offered),
\* and header_offset() is 0 for every reachable image.
C8_HeaderOffsetZero ==
    /\ header_offset(boot_image) = 0
    /\ section_start(boot_image.header, "Header") = [ok |-> TRUE, value |-> 0]
    /\ (call.op = "insert_header" /\ call.arg.page_size # 0) =>
           section_start(call.arg, "Header") = [ok |-> TRUE, value |-> 0]

\* An image with non-empty sections, and an offered header whose size fields
\* are non-zero and unrelated to the buffers.
C8_Witness ==
    /\ call.op = "insert_header"
    /\ call.arg.page_size = 4
    /\ call.arg.kernel_size = 7
    /\ call.arg.device_tree_size = 5000
    /\ boot_image.header.page_size = 2
    /\ boot_image.header.kernel_size = 2
    /\ boot_image.header.ramdisk_size = 1

C10_ZeroPageSizeRejected ==
    (call.op = "insert_header" /\ call.arg.magic = AndroidMagic /\ call.arg.page_size = 0) =>
        /\ call.ret = [ok |-> FALSE, err |-> "NoPageSize", header |-> call.arg]
        /\ call.ret.header.page_size = 0
        /\ boot_image.header = call.pre.header
        /\ boot_image.header.page_size # 0
        /\ Buffers4(boot_image) = Buffers4(call.pre)

\* A zero-page-size header with the right magic offered to a populated image.
C10_Witness ==
    /\ call.op = "insert_header"
    /\ call.arg.magic = AndroidMagic
    /\ call.arg.page_size = 0
    /\ ~call.ret.ok
    /\ call.pre.header.page_size = 4
    /\ call.pre.ramdisk # <<>>

\* C19: the default boot image has page size 2048, four buffers of length
\* 0, four size fields equal to 0 and the magic "ANDROID!".
C19_DefaultImage ==
    call.op = "default" =>
        /\ page_size(boot_image) = 2048
        /\ Buffers4(boot_image) = <<<<>>, <<>>, <<>>, <<>>>>
        /\ boot_image.header.kernel_size = 0
        /\ boot_image.header.ramdisk_size = 0
        /\ boot_image.header.second_size = 0
        /\ boot_image.header.device_tree_size = 0
        /\ boot_image.header.magic = AndroidMagic

\* The image as constructed, before any insert.
C19_Witness ==
    /\ call.op = "default"
    /\ boot_image = DefaultBootImage
    /\ boot_image = call.pre

\* C26: insert_header checks the magic before the page size: a header with
\* a wrong magic and page_size 0 is rejected with BadMagic, and NoPageSize
\* is returned only for a header whose magic is right.
C26_MagicCheckedFirst ==
    call.op = "insert_header" =>
        /\ (call.arg.magic # AndroidMagic /\ call.arg.page_size = 0) =>
               call.ret = [ok |-> FALSE, err |-> "BadMagic", header |-> call.arg]
        /\ (~call.ret.ok /\ call.ret.err = "NoPageSize") =>
               (call.arg.magic = AndroidMagic /\ call.arg.page_size = 0)

\* A header wrong in both respects offered to an image holding a ramdisk
\* and a header with 2-byte pages.
C26_Witness ==
    /\ call.op = "insert_header"
    /\ call.arg.magic # AndroidMagic
    /\ call.arg.page_size = 0
    /\ ~call.ret.ok
    /\ call.ret.err = "BadMagic"
    /\ call.pre.header.page_size = 2
    /\ Len(call.pre.ramdisk) = 2

InsertOps == <<"insert_kernel", "insert_ramdisk", "insert_second_ramdisk", "insert_device_tree">>

SizeFields(h) == <<h.kernel_size, h.ramdisk_size, h.second_size, h.device_tree_size>>

\* The header with its four size fields blanked: every other field.
OtherFields(h) ==
    [h EXCEPT !.kernel_size = 0, !.ramdisk_size = 0, !.second_size = 0,
              !.device_tree_size = 0]

\* C11: each of insert_kernel, insert_ramdisk, insert_second_ramdisk and
\* insert_device_tree returns exactly the buffer stored before the call,
\* stores the supplied buffer, sets the one matching *_size field to the
\* supplied length, and leaves the other three buffers, the other three
\* size fields and every other header field as they were.
C11_SectionInsertFrame ==
    \A i \in 1..4 :
        call.op = InsertOps[i] =>
            /\ call.ret = Buffers4(call.pre)[i]
            /\ Buffers4(boot_image)[i] = call.arg
            /\ SizeFields(boot_image.header)[i] = Len(call.arg)
            /\ \A j \in (1..4) \ {i} :
                   /\ Buffers4(boot_image)[j] = Buffers4(call.pre)[j]
                   /\ SizeFields(boot_image.header)[j] = SizeFields(call.pre.header)[j]
            /\ OtherFields(boot_image.header) = OtherFields(call.pre.header)

\* A second ramdisk of one byte replaced by one of two bytes in an image
\* whose other three buffers are not empty and whose header was swapped in.
C11_Witness ==
    /\ call.op = "insert_second_ramdisk"
    /\ Len(call.ret) = 1
    /\ Len(call.arg) = 2
    /\ call.pre.kernel # <<>>
    /\ Len(call.pre.ramdisk) = 1
    /\ call.pre.device_tree # <<>>
    /\ call.pre.header.page_size = 4

(***************************************************************************)
(* Properties of the layout calculator, checked under SpecLayout.          *)
(***************************************************************************)
Catalog == <<"Header", "Kernel", "Ramdisk", "Second", "DeviceTree">>

CatalogIndex(t) == CHOOSE i \in 1..Len(Catalog) : Catalog[i] = t

\* The size the format declares for a section.
DeclaredSize(h, t) ==
    IF t = "Header" THEN 616
    ELSE IF t = "Kernel" THEN h.kernel_size
    ELSE IF t = "Ramdisk" THEN h.ramdisk_size
    ELSE IF t = "Second" THEN h.second_size
    ELSE h.device_tree_size

\* ceil(a / b) for b > 0.
CeilDiv(a, b) == IF a % b = 0 THEN a \div b ELSE (a \div b) + 1

\* Pages of the first n catalog sections.
RECURSIVE PagesOfFirst(_, _)
PagesOfFirst(h, n) ==
    IF n = 0 THEN 0
    ELSE PagesOfFirst(h, n - 1) + CeilDiv(DeclaredSize(h, Catalog[n]), h.page_size)

ExpectedStart(h, t) == h.page_size * PagesOfFirst(h, CatalogIndex(t) - 1)

Located == layout.pc = "located"

\* C5: with page_size p > 0, section_start(t) is p times the sum of
\* ceil(size(s) / p) over the catalog sections s strictly before t, the
\* header counting 616 bytes and zero-size sections included.
C5_OffsetFormula ==
    (Located /\ layout.header.page_size > 0) =>
        layout.start = [ok |-> TRUE, value |-> ExpectedStart(layout.header, layout.target)]

\* The device tree located behind a 5000-byte kernel, an empty ramdisk and a
\* 3-byte second stage, with 2048-byte pages: 1 + 3 + 0 + 1 pages.
C5_Witness ==
    /\ Located
    /\ layout.target = "DeviceTree"
    /\ layout.header.page_size = 2048
    /\ layout.header.kernel_size = 5000
    /\ layout.header.ramdisk_size = 0
    /\ layout.header.second_size = 3
    /\ layout.start = [ok |-> TRUE, value |-> 10240]

StartOf(h, t) == section_start(h, t).value

\* C6: with page_size p > 0, every section starts at or after the end of
\* the section before it and at a multiple of p, and the byte ranges of two
\* distinct sections have no byte in common.
C6_MonotonicAlignment ==
    (Located /\ layout.header.page_size > 0) =>
        LET h == layout.header
            p == h.page_size
        IN  /\ \A i \in 1..(Len(Catalog) - 1) :
                   /\ StartOf(h, Catalog[i + 1]) >=
                          StartOf(h, Catalog[i]) + DeclaredSize(h, Catalog[i])
                   /\ StartOf(h, Catalog[i + 1]) % p = 0
            /\ layout.start.value % p = 0
            /\ \A i, j \in 1..Len(Catalog) :
                   i < j =>
                       StartOf(h, Catalog[i]) + DeclaredSize(h, Catalog[i])
                           <= StartOf(h, Catalog[j])

\* Sections that do not fill their last page: 2-byte pages, sizes 3, 1, 3.
C6_Witness ==
    /\ Located
    /\ layout.target = "Second"
    /\ layout.header.page_size = 2
    /\ layout.header.kernel_size = 3
    /\ layout.header.ramdisk_size = 1
    /\ layout.header.second_size = 3
    /\ layout.start.ok
    /\ layout.start.value = 311 * 2

\* C7: with page_size 0, section_start and section_location return
\* NoPageSize for every target section, the header included.
C7_ZeroPageSizeRejection ==
    (Located /\ layout.header.page_size = 0) =>
        /\ layout.start = [ok |-> FALSE, err |-> "NoPageSize"]
        /\ layout.location = [ok |-> FALSE, err |-> "NoPageSize"]

\* The header section located in a header with page size 0.
C7_Witness ==
    /\ Located
    /\ layout.header.page_size = 0
    /\ layout.target = "Header"
    /\ ~layout.start.ok
    /\ ~layout.location.ok

(***************************************************************************)
(* Properties of the header codec, checked under SpecCodec.                *)
(***************************************************************************)
\* A destination whose Write side receives every byte handed to it, the
\* u32 fields included, in little-endian order.
Faithful(dst) == dst.forwards /\ ~dst.big_endian

\* C1: for every 616-byte buffer b, parsing b and writing the header
\* obtained leaves exactly the bytes of b in the destination, in the same
\* order (stated for the destinations that lose no byte of the write).
C1_HeaderRoundTrip ==
    (codec.pc = "written" /\ codec.ret.ok /\ Faithful(codec.dst)) =>
        codec.dst.out = codec.buffer

(***************************************************************************)
(* Properties of image input/output, checked under SpecIO.                 *)
(***************************************************************************)
\* C3: an image written with write_to and read back from the written bytes
\* with read_from and the same page size is read successfully, and the
\* kernel, ramdisk, second and device tree buffers read equal the originals
\* (stated for the destinations that lose no byte of the write).
C3_ImageRoundTrip ==
    (/\ io.pc = "read"
     /\ Faithful(io.target)
     /\ io.override_page_size = Some(page_size(io.image))) =>
        /\ io.result.kind = "Ok"
        /\ Buffers4(io.result.image) = Buffers4(io.image)

\* The header the first 616 bytes of a stream denote in the format.
StreamHeader(b) == FormatHeader(SubSeq(b, 1, SAMSUNG_HEADER_SIZE))

\* The page size read_from is to work with: the override when there is one.
EffectivePageSize(b, ov) == unwrap_or(ov, StreamHeader(b).page_size)

StreamRead == io.pc = "streamed" /\ Len(io.stream) >= SAMSUNG_HEADER_SIZE

\* C12: for a stream whose first 616 bytes hold the wrong magic, or whose
\* effective page size (the override, else the header's page_size) is 0,
\* read_from returns the BadHeader error value: it does not abort, return
\* Io or return an image.
C12_BadHeaderReturned ==
    (/\ StreamRead
     /\ \/ StreamHeader(io.stream).magic # AndroidMagic
        \/ EffectivePageSize(io.stream, io.override_page_size) = 0)
    => (io.result.kind = "Err" /\ io.result.err = "BadHeader")

\* The header of a stream as read_from is to use it: the format's fields
\* with the effective page size.
EffectiveHeader(b, ov) ==
    [StreamHeader(b) EXCEPT !.page_size = EffectivePageSize(b, ov)]

\* The stream holds every declared section at the offset the format gives.
SectionsPresent(b, ov) ==
    LET h == EffectiveHeader(b, ov) IN
    \A t \in {"Kernel", "Ramdisk", "Second", "DeviceTree"} :
        DeclaredSize(h, t) > 0 => ExpectedStart(h, t) + DeclaredSize(h, t) <= Len(b)

\* C13: the override replaces the header's page_size before validation and
\* before any offset is computed: a stream with the right magic that holds
\* its sections at the offsets of the effective page size is read
\* successfully when the override is non-zero, also when the header's own
\* page_size is 0, and the image returned has the override as page_size();
\* without an override the header's own page_size is the one used.
C13_OverridePageSize ==
    (/\ StreamRead
     /\ StreamHeader(io.stream).magic = AndroidMagic
     /\ EffectivePageSize(io.stream, io.override_page_size) # 0
     /\ SectionsPresent(io.stream, io.override_page_size))
    => /\ io.result.kind = "Ok"
       /\ page_size(io.result.image) = EffectivePageSize(io.stream, io.override_page_size)

\* The size bytes of a stream at 0-based offset off; a stream that ends
\* before them has no such bytes (-1 is no byte value).
StreamBytes(b, off, size) ==
    IF size = 0 THEN <<>>
    ELSE IF off + size <= Len(b) THEN SubSeq(b, off + 1, off + size)
    ELSE <<-1>>

\* The section the format places in a stream for a catalog entry.
DeclaredSection(b, ov, t) ==
    LET h == EffectiveHeader(b, ov) IN
    StreamBytes(b, ExpectedStart(h, t), DeclaredSize(h, t))

\* C14: after a successful read_from each of the four buffers of the image
\* equals exactly the bytes of the size declared in the stream's header,
\* found at the offset the layout formula gives for those sizes and the
\* effective page size, which is not 0; padding is never part of a buffer.
C14_SectionsAtFormulaOffsets ==
    (StreamRead /\ io.result.kind = "Ok") =>
        /\ EffectivePageSize(io.stream, io.override_page_size) # 0
        /\ Buffers4(io.result.image) =
               << DeclaredSection(io.stream, io.override_page_size, "Kernel"),
                  DeclaredSection(io.stream, io.override_page_size, "Ramdisk"),
                  DeclaredSection(io.stream, io.override_page_size, "Second"),
                  DeclaredSection(io.stream, io.override_page_size, "DeviceTree") >>

\* The bytes a finished read_from was given.
ReadDone == io.pc \in {"streamed", "read"}

BytesRead == IF io.pc = "streamed" THEN io.stream ELSE io.target.out

\* The buffer is what the stream holds at the offset, and lies within it.
HeldAt(buffer, offset) ==
    buffer = StreamBytes(BytesRead, offset, Len(buffer))

Written == io.pc = "written" /\ io.ret.ok

SectionBytes(img) == img.kernel \o img.ramdisk \o img.second_ramdisk \o img.device_tree

\* C16: a successful write_to of an image puts 616 header bytes into the
\* destination, followed at once by the kernel, ramdisk, second ramdisk and
\* device tree buffers with no padding, and returns 616 plus the four
\* lengths, which is the number of bytes the destination received.
C16_WriteToLayout ==
    Written =>
        /\ io.ret.value = SAMSUNG_HEADER_SIZE + Len(SectionBytes(io.image))
        /\ Len(io.target.out) = io.ret.value
        /\ SubSeq(io.target.out, SAMSUNG_HEADER_SIZE + 1, Len(io.target.out))
              = SectionBytes(io.image)

\* C17: parse of a 616-byte buffer b yields magic = b[0..8], the ten u32
\* fields as the little-endian values of the consecutive 4-byte groups of
\* b[8..48] in declaration order, product_name = b[48..72], boot_arguments =
\* b[72..584] and unique_id = b[584..616]; all 616 bytes are consumed.
C17_ParsePositional ==
    codec.pc \in {"parsed", "written"} => codec.header = FormatHeader(codec.buffer)

\* C18: a successful write_to of a header places exactly 616 bytes into the
\* destination stream: the magic, each u32 field as 4 little-endian bytes at
\* its declared position, then the three byte arrays; the count returned,
\* 616, is the number of bytes the destination received.
C18_HeaderWriteTo ==
    (codec.pc = "written" /\ codec.ret.ok) =>
        /\ codec.ret.value = SAMSUNG_HEADER_SIZE
        /\ Len(codec.dst.out) = codec.ret.value
        /\ codec.dst.out = DiskImage(codec.header)

\* C20: for every reachable image, with p its page size, each
\* X_size_in_pages() is ceil(len(X) / p), header_size_in_pages() is
\* ceil(616 / p), and the byte offset of each section is p times the sum of
\* the page counts of the sections before it; with p = 2048 and a kernel of
\* 5000 bytes the kernel takes 3 pages and the ramdisk starts at 8192.
C20_PageAccounting ==
    LET img == boot_image
        p   == page_size(img)
        hp  == CeilDiv(616, p)
        kp  == CeilDiv(Len(img.kernel), p)
        rp  == CeilDiv(Len(img.ramdisk), p)
        sp  == CeilDiv(Len(img.second_ramdisk), p)
        dp  == CeilDiv(Len(img.device_tree), p)
    IN
    /\ p # 0
    /\ header_size_in_pages(img) = hp
    /\ kernel_size_in_pages(img) = kp
    /\ ramdisk_size_in_pages(img) = rp
    /\ second_ramdisk_size_in_pages(img) = sp
    /\ device_tree_size_in_pages(img) = dp
    /\ header_offset(img) = 0
    /\ kernel_offset(img) = p * hp
    /\ ramdisk_offset(img) = p * (hp + kp)
    /\ second_ramdisk_offset(img) = p * (hp + kp + rp)
    /\ device_tree_offset(img) = p * (hp + kp + rp + sp)
    /\ (p = 2048 /\ Len(img.kernel) = 5000) =>
          (kernel_size_in_pages(img) = 3 /\ ramdisk_offset(img) = 8192)

\* The 5000-byte kernel in an image with 2048-byte pages and a ramdisk and
\* a second ramdisk that take a page each.
C20_Witness ==
    /\ page_size(boot_image) = 2048
    /\ Len(boot_image.kernel) = 5000
    /\ boot_image.ramdisk # <<>>
    /\ boot_image.second_ramdisk # <<>>
    /\ ramdisk_offset(boot_image) = 8192
    /\ device_tree_offset(boot_image) = 12288

(***************************************************************************)
(* Further properties of the layout calculator, checked under SpecLayout.  *)
(***************************************************************************)
\* The catalog entry after t.
NextInCatalog(t) == Catalog[CatalogIndex(t) + 1]

\* C21: for every header with non-zero page size, a section of declared
\* size 0 takes 0 pages: the section after it in catalog order starts at the
\* same offset; a section of non-zero size s takes ceil(s / page_size)
\* pages, at least one, so the next section starts that many pages later.
\* The image's size_to_size_in_pages gives the same counts.
C21_ZeroSizeSections ==
    (Located /\ layout.header.page_size # 0 /\ layout.target # "DeviceTree") =>
        LET h == layout.header
            p == h.page_size
            s == DeclaredSize(h, layout.target)
            n == StartOf(h, NextInCatalog(layout.target))
        IN  /\ s = 0 => (n = layout.start.value /\ size_to_size_in_pages(s, p) = 0)
            /\ s # 0 => /\ n = layout.start.value + p * CeilDiv(s, p)
                        /\ CeilDiv(s, p) >= 1
                        /\ n > layout.start.value
                        /\ size_to_size_in_pages(s, p) = CeilDiv(s, p)

\* An empty ramdisk between a kernel of three pages and a second ramdisk.
C21_Witness ==
    /\ Located
    /\ layout.target = "Ramdisk"
    /\ layout.header.page_size = 2048
    /\ layout.header.kernel_size = 5000
    /\ layout.header.ramdisk_size = 0
    /\ layout.header.second_size = 3
    /\ layout.start = [ok |-> TRUE, value |-> 8192]
    /\ StartOf(layout.header, "Second") = 8192

Listed == layout.pc = "listed"

\* Pages of the listed sections that come before catalog entry number n.
RECURSIVE ListedPagesBefore(_, _, _)
ListedPagesBefore(h, list, n) ==
    IF list = <<>> THEN 0
    ELSE (IF CatalogIndex(Head(list)) < n
          THEN CeilDiv(DeclaredSize(h, Head(list)), h.page_size) ELSE 0)
         + ListedPagesBefore(h, Tail(list), n)

\* C22: sections() returns exactly the catalog sections whose size is
\* greater than 0, each once and in catalog order; Header is always included
\* and first; and the offsets section_start returns are those computed from
\* the listed sections alone, the omitted zero-size ones changing nothing.
C22_PresentSections ==
    Listed =>
        LET h    == layout.header
            list == layout.sections
        IN  /\ \A n \in 1..Len(Catalog) :
                   (\E i \in 1..Len(list) : list[i] = Catalog[n]) <=> DeclaredSize(h, Catalog[n]) > 0
            /\ \A i, j \in 1..Len(list) :
                   i < j => CatalogIndex(list[i]) < CatalogIndex(list[j])
            /\ \A i \in 1..Len(list) : \E n \in 1..Len(Catalog) : list[i] = Catalog[n]
            /\ Len(list) >= 1
            /\ list[1] = "Header"
            /\ h.page_size # 0 =>
                   \A n \in 1..Len(Catalog) :
                       StartOf(h, Catalog[n]) = h.page_size * ListedPagesBefore(h, list, n)

\* A header with an empty kernel and an empty second ramdisk.
C22_Witness ==
    /\ Listed
    /\ layout.header.page_size = 2
    /\ layout.header.ramdisk_size = 3
    /\ layout.sections = <<"Header", "Ramdisk", "DeviceTree">>

(***************************************************************************)
(* Further properties of image input and output, checked under SpecIO.     *)
(***************************************************************************)
\* What a destination of the same kind with room for everything receives.
FullOutput(img, target) ==
    image_write_to(img, NewDestination(target.forwards, target.big_endian, Unlimited)).dst.out

\* C23: a write error stops write_to.  The write fails exactly when the
\* destination cannot take all of the bytes; the error is then returned,
\* the destination holds the bytes up to the failure and nothing of what
\* comes later, and the image is the same after the call, failed or not.
\* The first definition is the part about the state after the call.
C23_StateAfterWrite ==
    io.pc = "written" =>
        LET full == FullOutput(io.image, io.target) IN
        /\ io.ret.ok <=> Len(full) <= io.target.capacity
        /\ ~io.ret.ok => /\ io.ret = [ok |-> FALSE, err |-> "Io"]
                         /\ io.target.out = Truncate(full, io.target.capacity)
        /\ io.ret.ok => io.target.out = full

C23_WriteErrorsStop ==
    /\ []C23_StateAfterWrite
    /\ [][io.pc = "image" => io'.image = io.image]_vars

\* A destination with room for the header and one byte more, offered an
\* image with a kernel of two bytes and a ramdisk: the kernel's write fails.
C23_Witness ==
    /\ io.pc = "written"
    /\ ~io.ret.ok
    /\ io.target.forwards
    /\ io.target.capacity = SAMSUNG_HEADER_SIZE + 1
    /\ Len(io.image.kernel) = 2
    /\ io.image.ramdisk # <<>>
    /\ Len(io.target.out) = SAMSUNG_HEADER_SIZE + 1

(***************************************************************************)
(* Properties of every image, built or read, checked under SpecImage.      *)
(***************************************************************************)
\* The images a state holds: the one being built, the one written out, and
\* the one a read returned.
ImagesOfState ==
    {boot_image}
    \cup (IF io.pc \in {"image", "written", "read"} THEN {io.image} ELSE {})
    \cup (IF io.pc \in {"read", "streamed"} /\ io.result.kind = "Ok"
          THEN {io.result.image} ELSE {})

\* C24: the page size of an image is never 0, whether the image is the
\* default one, the outcome of any sequence of insert_header and section
\* inserts, or one returned by read_from with or without an override, the
\* override 0 included; the page counts and offsets, which divide by the
\* page size, are therefore defined.
C24_PageSizeNeverZero ==
    \A img \in ImagesOfState :
        /\ page_size(img) # 0
        /\ header_size_in_pages(img) >= 1
        /\ device_tree_offset(img) >= kernel_offset(img)

\* A stream whose header carries a page size, read with the override 0:
\* no image comes back.
C24_Witness ==
    /\ StreamRead
    /\ io.override_page_size = Some(0)
    /\ StreamHeader(io.stream).magic = AndroidMagic
    /\ StreamHeader(io.stream).page_size = 4
    /\ io.result.kind # "Ok"
    /\ ImagesOfState = {DefaultBootImage}

(***************************************************************************)
(* Further properties of read_from, checked under SpecIO.                  *)
(***************************************************************************)
\* The header of the stream is one that validation rejects.
InvalidHeader(b, ov) ==
    \/ StreamHeader(b).magic # AndroidMagic
    \/ EffectivePageSize(b, ov) = 0

\* The stream is shorter than its header and declared sections together.
TooShortForSections(b) ==
    LET h == StreamHeader(b) IN
    Len(b) < SAMSUNG_HEADER_SIZE + h.kernel_size + h.ramdisk_size
                 + h.second_size + h.device_tree_size

\* The call ended with the rejection of the header, returned or raised.
EndedInValidation(r) ==
    \/ r.kind = "Err" /\ r.err = "BadHeader"
    \/ r.kind = "panic" /\ r.cause.err \in {"BadMagic", "NoPageSize"}

\* C25: in read_from the magic and page size checks of the header come
\* before the first seek or read of a section, so a stream whose header is
\* invalid and which is too short for its declared sections ends in the
\* header validation failure, never in the Io error of a section read.
C25_ValidationBeforeSections ==
    (/\ StreamRead
     /\ InvalidHeader(io.stream, io.override_page_size)
     /\ TooShortForSections(io.stream))
    => EndedInValidation(io.result)

(***************************************************************************)
(* The image's layout against the header's, checked under Spec.            *)
(***************************************************************************)
\* The offset the image computes for a catalog entry from its buffers.
ImageOffset(img, t) ==
    CASE t = "Header"     -> header_offset(img)
      [] t = "Kernel"     -> kernel_offset(img)
      [] t = "Ramdisk"    -> ramdisk_offset(img)
      [] t = "Second"     -> second_ramdisk_offset(img)
      [] t = "DeviceTree" -> device_tree_offset(img)

C28_HeaderSurvivesRead ==
    (StreamRead /\ io.result.kind = "Ok") =>
        io.result.image.header = EffectiveHeader(io.stream, io.override_page_size)

(***************************************************************************)
(* Size fields of images with buffers of any length, checked under         *)
(* SpecWide.                                                               *)
(***************************************************************************)
\* n mod 2^32 as n - 2^32 * floor(n / 2^32).
Mod2to32(n) == WSub(n, WMul(Pow2(32), WDiv(n, Pow2(32))))

\* The size field is the 32-bit truncation of the buffer's length.
Truncated(size, n) ==
    /\ size = Mod2to32(n)
    /\ WLess(size, Pow2(32))
    /\ WLess(n, Pow2(32)) <=> size = n

\* C29: each insert operation and update_all_sizes stores the buffer's
\* length reduced modulo 2^32 in the header's size field: the field equals
\* the length exactly when the length is below 2^32, and for a longer buffer
\* it is the length mod 2^32, the operation reporting no error (a section
\* insert returns the buffer held before).
C29_SizeFieldsTruncate ==
    /\ Truncated(boot_image.header.kernel_size, boot_image.kernel)
    /\ Truncated(boot_image.header.ramdisk_size, boot_image.ramdisk)
    /\ Truncated(boot_image.header.second_size, boot_image.second_ramdisk)
    /\ Truncated(boot_image.header.device_tree_size, boot_image.device_tree)
    /\ call.op = "insert_kernel" => boot_image.kernel = call.arg
    /\ call.op = "insert_ramdisk" => boot_image.ramdisk = call.arg
    /\ call.op = "insert_second_ramdisk" => boot_image.second_ramdisk = call.arg
    /\ call.op = "insert_device_tree" => boot_image.device_tree = call.arg
    /\ call.op \in {"insert_kernel", "insert_ramdisk", "insert_second_ramdisk",
                    "insert_device_tree"} => call.ret \in WideLengths

\* A kernel of 2^32 + 5 bytes put in place of one of 2^63 - 1 bytes: the
\* size field is 5.
C29_Witness ==
    /\ call.op = "insert_kernel"
    /\ call.arg = WAdd(Pow2(32), Wide(5))
    /\ call.ret = WSub(Pow2(63), Wide(1))
    /\ boot_image.header.kernel_size = Wide(5)
    /\ boot_image.header.ramdisk_size = <<>>
    /\ boot_image.ramdisk = Pow2(32)

(***************************************************************************)
(* The layout calculator on the full range of u32 inputs, checked under    *)
(* SpecWideLayout.                                                         *)
(***************************************************************************)
\* ceil(a / b) for b > 0, without bound.
CeilDivWide(a, b) ==
    LET q == WDiv(a, b) IN
    IF WMul(q, b) = a THEN q ELSE WAdd(q, Wide(1))

\* The size the format declares for a catalog entry.
DeclaredSizeWide(h, t) ==
    IF t = "Header" THEN Wide(616)
    ELSE IF t = "Kernel" THEN h.kernel_size
    ELSE IF t = "Ramdisk" THEN h.ramdisk_size
    ELSE IF t = "Second" THEN h.second_size
    ELSE h.device_tree_size

\* Pages of the first n catalog sections, without bound.
RECURSIVE PagesOfFirstWide(_, _)
PagesOfFirstWide(h, n) ==
    IF n = 0 THEN <<>>
    ELSE WAdd(PagesOfFirstWide(h, n - 1),
              CeilDivWide(DeclaredSizeWide(h, Catalog[n]), h.page_size))

\* The offset of the layout formula as a number without bound.
ExactStart(h, t) == WMul(h.page_size, PagesOfFirstWide(h, CatalogIndex(t) - 1))

\* C30: for every header whose four size fields and page size are u32
\* values with page_size # 0, no intermediate value of section_start
\* reaches 2^64, and the offset returned is the exact value of the layout
\* formula, for every target section.
C30_NoOverflowIn64Bits ==
    (layout.pc = "located" /\ layout.header.page_size # <<>>) =>
        /\ layout.start.ok
        /\ ~layout.start.overflowed
        /\ layout.start.value = ExactStart(layout.header, layout.target)
        /\ WLess(ExactStart(layout.header, layout.target), Pow2(64))

\* The device tree located behind three sections of 2^32 - 1 bytes with
\* pages of 2^32 - 1 bytes: four pages in.
C30_Witness ==
    /\ layout.pc = "located"
    /\ layout.target = "DeviceTree"
    /\ layout.header.page_size = WSub(Pow2(32), Wide(1))
    /\ layout.header.kernel_size = WSub(Pow2(32), Wide(1))
    /\ layout.header.ramdisk_size = WSub(Pow2(32), Wide(1))
    /\ layout.header.second_size = WSub(Pow2(32), Wide(1))
    /\ layout.start.ok
    /\ layout.start.value = WMul(Wide(4), WSub(Pow2(32), Wide(1)))
    /\ WLess(Pow2(32), layout.start.value)

====
